---- MODULE Spec2Model ----
(***************************************************************************)
(* The flow execution engine of src/lib/execution/engine.ts as a state     *)
(* machine: executeFlow walks the graph from the input node, every call of *)
(* executeNodeAndContinue is one "execution" that pauses at its 300 ms     *)
(* timer, at the fetch of a prompt node and at Promise.all over the        *)
(* executions it started.                                                  *)
(***************************************************************************)
EXTENDS Integers, Sequences, FiniteSets, TLC

\* ------------------------------------------------------------------ bounds
\* Largest number of edges of a graph.
MaxEdges == 3
\* Largest number of prompt requests that fail in one run.
MaxFail == 2

\* The node list holds four nodes; a node's id is its position in the list.
NodeIds == {1, 2, 3, 4}
NodeTypes == {"input", "prompt", "tool", "output"}
NoNode == 0
\* Edges go from a lower to a higher id, which keeps every graph acyclic.
EdgePairs == {p \in NodeIds \X NodeIds : p[1] < p[2]}
\* The run's initiating input; a value is the input followed by the ids of
\* the prompt nodes that transformed it.
userInput == <<0>>
\* The empty string of `outputs[outputs.length - 1] || ""`.
EmptyString == <<>>

VARIABLES
    nodes,      \* Node[]: nodes[i] = [id |-> i, type |-> t]
    edges,      \* Edge[]: a sequence of [source, target]
    flow,       \* executeFlow's promise: "idle", "running", "resolved", "rejected"
    result,     \* the value executeFlow resolved with
    execs,      \* the calls of executeNodeAndContinue, in the order they were made
    timers,     \* the pending 300 ms timers, oldest first (exec indices)
    context,    \* Record<string, unknown>: node id -> value, for the ids written
    outputs,    \* string[]: the captured outputs of output nodes
    log,        \* history: every onNodeStateChange, context write, fetch and push
    aborted,    \* the user pressed Cancel
    \* pending-input-registry.ts
    pendingInputs,  \* Map<string, {resolve}>: node id -> the promise it resolves
    promises,       \* every promise waitForInput has returned, in call order
    lastCall,       \* history: the last call made on the registry
    \* useFlowExecution and the React state it works on
    uiNodes,        \* useNodesState: id -> [type, status] of the nodes on the canvas
    uiEdges,        \* useEdgesState: the edges on the canvas
    isRunning,      \* useState(false)
    previewEntries, \* useState<PreviewEntry[]>([])
    addedPreviewIds,\* useRef<Set<string>>
    keyError,       \* useState<string | null>(null): "none" or "missing"
    hasKey,         \* what hasRequiredKey answers for the provider of prompt nodes
    savedFlow,      \* the stored flow the load operations put on the canvas
    resetSince,     \* history: resetExecution has run and no run has started since
    inFlight,       \* history: executeFlow calls that have not returned
    lastOp,         \* history: the last operation of the hook
    \* the evaluator of the execute endpoint
    code,           \* the code text of the request, a sequence of fragments
    evalPc,         \* "idle", "executing", "done" or "rejected"
    executed,       \* history: how many fragments of the code have been executed
    \* execute_live_flow_check and the flows row it works on
    dbCount,  \* flows.daily_execution_count
    dbStale,  \* flows.daily_execution_reset is more than one day old
    allowPublic,  \* flows.allow_public_execute
    rowLock,  \* the transaction holding the row lock of FOR UPDATE, or 0
    callers,  \* the concurrent calls: their position, the row they read, their answer
    allowedInWindow, \* history: calls answered allowed since the counter was last reset
    \* update_live_flow and the tables flow_nodes and flow_edges of one flow
    dbNodes,  \* flow_nodes: the stored node ids
    dbEdges,  \* flow_edges: the stored edges, [id, source, target]
    lastUpdate, \* history: the answer of the last update_live_flow call and its p_deleted_node_ids
    \* useCommentAround: one canvas and the callbacks it was given
    caNodes,  \* the node list held by setNodes
    caBefore,  \* history: the node list when handleCommentAround was called
    caCalls,  \* history: how often each callback was invoked
    caPc, \* "idle" | "done"
    \* useAutopilotChanges: the canvas the autopilot edits
    apNodes,  \* the node ids held by setNodes, in order
    apEdges,  \* the edges held by setEdges, in order
    autopilotHighlightedIds,  \* the highlighted node ids
    apBefore,  \* history: nodes and edges when applyAutopilotChanges was called
    applied,  \* the AppliedChangesInfo returned by applyAutopilotChanges
    apPc, \* "idle" | "applied" | "undone"
    \* useCollaboration: two clients of one shared flow, by client
    clNodes,  \* the node ids held by setNodes
    clEdges,  \* the edges held by setEdges
    prevNodesRef,  \* prevNodesRef.current, as node ids
    prevEdgesRef,  \* prevEdgesRef.current
    isApplyingRemoteRef,  \* isApplyingRemoteRef.current
    resetTimers,  \* is a setTimeout(..., 0) that clears the flag pending?
    renderPending,  \* "none" | "local" | "remote": the state change whose effects have not run
    saveTimeoutRef,  \* the pending debounce timer and the state its performSave closes over
    isRealtimeConnected,  \* is the broadcast channel subscribed?
    channel,  \* the broadcast messages on their way to the client, in order
    lastTrigger,  \* history: the last triggerSave of the client
    lastSave,  \* history: the last performSave of the client
    lastBroadcast,  \* history: the last run of the broadcast effect
    owed,  \* history: local deletions no successful save has reported
    edits,  \* the local edits made so far
    broadcasts  \* the runs of the broadcast effect that sent messages

engineVars ==
    <<nodes, edges, flow, result, execs, timers, context, outputs, log, aborted>>

regVars == <<pendingInputs, promises, lastCall>>

hookVars ==
    <<uiNodes, uiEdges, isRunning, previewEntries, addedPreviewIds, keyError,
      hasKey, savedFlow, resetSince, inFlight, lastOp>>

evalVars == <<code, evalPc, executed>>

quotaVars == <<dbCount, dbStale, allowPublic, rowLock, callers, allowedInWindow>>

dbVars == <<dbNodes, dbEdges, lastUpdate>>

commentVars == <<caNodes, caBefore, caCalls, caPc>>

autopilotVars == <<apNodes, apEdges, autopilotHighlightedIds, apBefore, applied, apPc>>

collabVars == <<clNodes, clEdges, prevNodesRef, prevEdgesRef, isApplyingRemoteRef, resetTimers, renderPending, saveTimeoutRef, isRealtimeConnected, channel, lastTrigger, lastSave, lastBroadcast, owed, edits, broadcasts>>

vars == <<engineVars, regVars, hookVars, evalVars, quotaVars, dbVars, commentVars, autopilotVars, collabVars>>

\* What a step of one component leaves alone.
nonEngineVars == <<regVars, hookVars, evalVars, quotaVars, dbVars, commentVars, autopilotVars, collabVars>>

nonRegVars == <<engineVars, hookVars, evalVars, quotaVars, dbVars, commentVars, autopilotVars, collabVars>>

nonHookVars == <<regVars, evalVars, quotaVars, dbVars, commentVars, autopilotVars, collabVars>>

nonEvalVars == <<engineVars, regVars, hookVars, quotaVars, dbVars, commentVars, autopilotVars, collabVars>>

nonCollabVars == <<engineVars, regVars, hookVars, evalVars, quotaVars, dbVars, commentVars, autopilotVars>>

nonAutopilotVars == <<engineVars, regVars, hookVars, evalVars, quotaVars, dbVars, commentVars, collabVars>>

nonCommentVars == <<engineVars, regVars, hookVars, evalVars, quotaVars, dbVars, autopilotVars, collabVars>>

nonDbVars == <<engineVars, regVars, hookVars, evalVars, quotaVars, commentVars, autopilotVars, collabVars>>

nonQuotaVars == <<engineVars, regVars, hookVars, evalVars, dbVars, commentVars, autopilotVars, collabVars>>

\* --------------------------------------------------------------- helpers
Last(s) == s[Len(s)]

\* The bundle of the run's mutable state that the engine's steps transform.
Machine ==
    [flow |-> flow, result |-> result, execs |-> execs, timers |-> timers,
     context |-> context, outputs |-> outputs, log |-> log]

Commit(st) ==
    /\ flow' = st.flow
    /\ result' = st.result
    /\ execs' = st.execs
    /\ timers' = st.timers
    /\ context' = st.context
    /\ outputs' = st.outputs
    /\ log' = st.log

\* ------------------------------------------------- engine.ts, pure helpers
\* findStartNode: the first node of type "input", or NoNode.
RECURSIVE FindFrom(_, _)
FindFrom(ns, i) ==
    IF i > Len(ns) THEN NoNode
    ELSE IF ns[i].type = "input" THEN ns[i].id
    ELSE FindFrom(ns, i + 1)

findStartNode(ns) == FindFrom(ns, 1)

\* getOutgoingEdges: the edges whose source is nodeId, in list order.
getOutgoingEdges(nodeId, es) == SelectSeq(es, LAMBDA e : e.source = nodeId)

\* getTargetNode: the node the edge points to, or NoNode when there is none.
getTargetNode(edge, ns) ==
    IF \E i \in 1..Len(ns) : ns[i].id = edge.target
    THEN edge.target
    ELSE NoNode

TypeOf(ns, id) == (CHOOSE n \in {ns[i] : i \in 1..Len(ns)} : n.id = id).type

\* executeNode: what a node's handler returns for an input. Input, output and
\* unknown types pass the input through; a prompt node returns the response
\* of the execute endpoint, which depends on the node and on the input.
executeNodeOutput(ns, id, input) ==
    IF TypeOf(ns, id) = "prompt" THEN Append(input, id) ELSE input

\* ------------------------------------------------ engine.ts, state changes
Entry(kind, e, id, status) ==
    [kind |-> kind, exec |-> e, node |-> id, status |-> status]

\* onNodeStateChange(node.id, {status}) made by execution e.
onNodeStateChange(st, e, status) ==
    [st EXCEPT !.log = Append(@, Entry("state", e, st.execs[e].node, status)),
               !.execs[e].status = status]

\* StartExecution without the running event.
StartExecutionSilent(st, id, input, parent) ==
    LET e == Len(st.execs) + 1
    IN  [st EXCEPT !.execs = Append(@,
                    [node |-> id, input |-> input, parent |-> parent,
                     pc |-> "delay", status |-> "none", threw |-> FALSE]),
                   !.timers = Append(@, e)]

\* A call executeNodeAndContinue(node, input) up to its first await: it emits
\* running and arms the 300 ms timer.
StartExecution(st, id, input, parent) ==
    LET e == Len(st.execs) + 1
        st1 == [st EXCEPT !.execs = Append(@,
                    [node |-> id, input |-> input, parent |-> parent,
                     pc |-> "delay", status |-> "none", threw |-> FALSE])]
        st2 == onNodeStateChange(st1, e, "running")
    IN  [st2 EXCEPT !.timers = Append(@, e)]

\* The for loop over the outgoing edges: every existing target is started at
\* once, in edge order, with this node's output as its input.
RECURSIVE StartTargets(_, _, _, _)
StartTargets(st, out, parent, output) ==
    IF out = <<>> THEN st
    ELSE LET target == getTargetNode(Head(out), nodes)
             st1 == IF target # NoNode
                    THEN StartExecution(st, target, output, parent)
                    ELSE st
         IN  StartTargets(st1, Tail(out), parent, output)

\* context[node.id] = result.output
WriteContext(st, e, output) ==
    LET id == st.execs[e].node
    IN  [st EXCEPT
            !.context = [k \in DOMAIN st.context \cup {id} |->
                            IF k = id THEN output ELSE st.context[k]],
            !.log = Append(@, Entry("write", e, id, ""))]

\* outputs.push(result.output)
PushOutput(st, e, output) ==
    [st EXCEPT !.outputs = Append(@, output),
               !.log = Append(@, Entry("push", e, st.execs[e].node, ""))]

\* ContinueAfterExecute with the downstream nodes started before the output
\* is written and before success is emitted.
ContinueEager(st, e, output) ==
    LET id == st.execs[e].node
    IN  IF TypeOf(nodes, id) = "output"
        THEN [PushOutput(onNodeStateChange(WriteContext(st, e, output), e, "success"),
                         e, output) EXCEPT !.execs[e].pc = "settled"]
        ELSE LET st1 == StartTargets(st, getOutgoingEdges(id, edges), e, output)
                 st2 == WriteContext(st1, e, output)
             IN  [onNodeStateChange(st2, e, "success") EXCEPT !.execs[e].pc = "await"]

\* ContinueAfterExecute that follows the edges on the canvas at the time the
\* node completes instead of the edges executeFlow was called with.
ContinueLive(st, e, output) ==
    LET id == st.execs[e].node
        st1 == WriteContext(st, e, output)
        st2 == onNodeStateChange(st1, e, "success")
    IN  IF TypeOf(nodes, id) = "output"
        THEN [PushOutput(st2, e, output) EXCEPT !.execs[e].pc = "settled"]
        ELSE [StartTargets(st2, getOutgoingEdges(id, uiEdges), e, output)
                EXCEPT !.execs[e].pc = "await"]

\* The body of the try block after executeNode has returned `output`.
ContinueAfterExecute(st, e, output) ==
    LET id == st.execs[e].node
        st1 == WriteContext(st, e, output)
        st2 == onNodeStateChange(st1, e, "success")
    IN  IF TypeOf(nodes, id) = "output"
        THEN [PushOutput(st2, e, output) EXCEPT !.execs[e].pc = "settled"]
        ELSE [StartTargets(st2, getOutgoingEdges(id, edges), e, output)
                EXCEPT !.execs[e].pc = "await"]

\* OnCatch that throws the error again: Promise.all of the calling execution
\* rejects and its catch block reports the error for the upstream node too.
OnCatchRethrow(st, e) ==
    LET p == st.execs[e].parent
        st1 == [onNodeStateChange([st EXCEPT !.execs[e].threw = TRUE], e, "error")
                    EXCEPT !.execs[e].pc = "settled"]
    IN  IF p = 0 THEN st1
        ELSE [onNodeStateChange(st1, p, "error") EXCEPT !.execs[p].pc = "settled"]

\* OnCatch that lets the error escape from executeFlow.
OnCatchReject(st, e) ==
    [onNodeStateChange([st EXCEPT !.execs[e].threw = TRUE], e, "error")
        EXCEPT !.execs[e].pc = "settled", !.flow = "rejected"]

\* OnCatch that reports the error and starts the downstream nodes all the same.
OnCatchContinue(st, e) ==
    LET st1 == onNodeStateChange([st EXCEPT !.execs[e].threw = TRUE], e, "error")
    IN  [StartTargets(st1, getOutgoingEdges(st.execs[e].node, edges), e,
                      st.execs[e].input)
            EXCEPT !.execs[e].pc = "await"]

\* OnCatch that reports the error and never returns.
OnCatchHang(st, e) ==
    [onNodeStateChange([st EXCEPT !.execs[e].threw = TRUE], e, "error")
        EXCEPT !.execs[e].pc = "caught"]

\* The catch block: the error becomes this node's error state and the call
\* returns normally.
OnCatch(st, e) ==
    [onNodeStateChange([st EXCEPT !.execs[e].threw = TRUE], e, "error")
        EXCEPT !.execs[e].pc = "settled"]

Children(xs, e) == {c \in 1..Len(xs) : xs[c].parent = e}

\* Promise.all that is not awaited.
AllSettledNoWait(xs, e) == TRUE

\* await Promise.all(nextPromises): none of the promises rejects, so it
\* resolves when every execution started by e has returned.
AllSettled(xs, e) == \A c \in Children(xs, e) : xs[c].pc = "settled"

\* The promise chain after a step: every execution waiting in Promise.all
\* whose children have all returned returns itself.
RECURSIVE Resolve(_)
Resolve(st) ==
    LET ready == {e \in 1..Len(st.execs) :
                    st.execs[e].pc = "await" /\ AllSettled(st.execs, e)}
    IN  IF ready = {} THEN st
        ELSE Resolve([st EXCEPT !.execs =
                [i \in 1..Len(st.execs) |->
                    IF i \in ready THEN [st.execs[i] EXCEPT !.pc = "settled"]
                    ELSE st.execs[i]]])

\* return outputs[outputs.length - 1] || ""
FinalResult(outs) == IF outs = <<>> THEN EmptyString ELSE Last(outs)

\* executeFlow after `await executeNodeAndContinue(startNode, userInput)`.
FinishFlow(st) ==
    IF st.flow = "running" /\ Len(st.execs) >= 1 /\ st.execs[1].pc = "settled"
    THEN [st EXCEPT !.flow = "resolved", !.result = FinalResult(st.outputs)]
    ELSE st

Step(st) == Commit(FinishFlow(Resolve(st)))

\* ------------------------------------------------------------------ Init
\* The edge list of a set of edges, ordered by source and then by target.
Before(p, q) == p[1] < q[1] \/ (p[1] = q[1] /\ p[2] < q[2])

RECURSIVE EdgeList(_)
EdgeList(S) ==
    IF S = {} THEN <<>>
    ELSE LET p == CHOOSE x \in S : \A y \in S \ {x} : Before(x, y)
         IN  <<[source |-> p[1], target |-> p[2]]>> \o EdgeList(S \ {p})

\* The editor draws an edge from a source handle to a target handle: an output
\* node has no source handle and an input node has no target handle.
Connectable(ty, p) == ty[p[1]] # "output" /\ ty[p[2]] # "input"

\* No call has been made on the registry.
NoCall == [op |-> "none", id |-> 0, data |-> "none", found |-> 0]

RegInit ==
    /\ pendingInputs = <<>>
    /\ promises = <<>>
    /\ lastCall = NoCall

EngineInit ==
    /\ \E ty \in [NodeIds -> NodeTypes] :
         /\ nodes = [i \in NodeIds |-> [id |-> i, type |-> ty[i]]]
         /\ \E S \in SUBSET EdgePairs :
              /\ Cardinality(S) <= MaxEdges
              /\ \A p \in S : Connectable(ty, p)
              /\ edges = EdgeList(S)
    /\ flow = "idle"
    /\ result = EmptyString
    /\ execs = <<>>
    /\ timers = <<>>
    /\ context = <<>>
    /\ outputs = <<>>
    /\ log = <<>>
    /\ aborted = FALSE

\* The hook is not mounted: executeFlow is called directly.
HookIdle ==
    /\ uiNodes = <<>>
    /\ uiEdges = <<>>
    /\ isRunning = FALSE
    /\ previewEntries = <<>>
    /\ addedPreviewIds = {}
    /\ keyError = "none"
    /\ hasKey = TRUE
    /\ savedFlow = <<>>
    /\ resetSince = FALSE
    /\ inFlight = 0
    /\ lastOp = "none"

\* No code has been sent to the evaluator.
EvalIdle ==
    /\ code = <<>>
    /\ evalPc = "idle"
    /\ executed = 0

\* No call of the quota function is made.
QuotaIdle ==
    /\ dbCount = 0
    /\ dbStale = FALSE
    /\ allowPublic = FALSE
    /\ rowLock = 0
    /\ callers = <<>>
    /\ allowedInWindow = 0

\* No flow is stored and no update is made.
DbIdle ==
    /\ dbNodes = {}
    /\ dbEdges = {}
    /\ lastUpdate = [success |-> FALSE, deletedNodeIds |-> {}]

\* No canvas is open for commenting.
CommentIdle ==
    /\ caNodes = <<>>
    /\ caBefore = <<>>
    /\ caCalls = [onBeforeChange |-> 0, setNodes |-> 0, triggerGeneration |-> 0]
    /\ caPc = "idle"

\* The autopilot has no canvas.
AutopilotIdle ==
    /\ apNodes = <<>>
    /\ apEdges = <<>>
    /\ autopilotHighlightedIds = {}
    /\ apBefore = [nodes |-> <<>>, edges |-> <<>>]
    /\ applied = [nodeIds |-> <<>>, edgeIds |-> <<>>]
    /\ apPc = "idle"

\* No client has joined a shared flow.
CollabIdle ==
    /\ clNodes = <<>>
    /\ clEdges = <<>>
    /\ prevNodesRef = <<>>
    /\ prevEdgesRef = <<>>
    /\ isApplyingRemoteRef = <<>>
    /\ resetTimers = <<>>
    /\ renderPending = <<>>
    /\ saveTimeoutRef = <<>>
    /\ isRealtimeConnected = FALSE
    /\ channel = <<>>
    /\ lastTrigger = <<>>
    /\ lastSave = <<>>
    /\ lastBroadcast = <<>>
    /\ owed = <<>>
    /\ edits = 0
    /\ broadcasts = 0

\* The other components at rest.
NonEngineIdle == RegInit /\ HookIdle /\ EvalIdle /\ QuotaIdle /\ DbIdle /\ CommentIdle /\ AutopilotIdle /\ CollabIdle

Init == EngineInit /\ NonEngineIdle

\* --------------------------------------------------------------- actions
\* executeFlow(nodes, edges, userInput, onNodeStateChange) is called: without
\* an input node it throws, otherwise it starts the input node.
RunFlow ==
    /\ flow = "idle"
    /\ LET startNode == findStartNode(nodes)
       IN  IF startNode = NoNode
           THEN Commit([Machine EXCEPT !.flow = "rejected"])
           ELSE Step(StartExecution([Machine EXCEPT !.flow = "running"],
                                    startNode, userInput, 0))
    /\ UNCHANGED <<nodes, edges, aborted>>

\* The oldest 300 ms timer fires and executeNode is called. A prompt node
\* sends its request to the execute endpoint and waits for the response;
\* every other node returns its input at once.
TimerFires ==
    /\ timers # <<>>
    /\ LET e == Head(timers)
           id == execs[e].node
           st == [Machine EXCEPT !.timers = Tail(@)]
       IN  IF TypeOf(nodes, id) = "prompt"
           THEN Step([st EXCEPT !.execs[e].pc = "fetch",
                                !.log = Append(@, Entry("fetch", e, id, ""))])
           ELSE Step(ContinueAfterExecute(st, e,
                        executeNodeOutput(nodes, id, execs[e].input)))
    /\ UNCHANGED <<nodes, edges, aborted>>

Failures == Cardinality({e \in 1..Len(execs) : execs[e].threw})

\* The execute endpoint answers a prompt request with an output.
FetchOk(e) ==
    /\ execs[e].pc = "fetch"
    /\ Step(ContinueAfterExecute(Machine, e,
                executeNodeOutput(nodes, execs[e].node, execs[e].input)))
    /\ UNCHANGED <<nodes, edges, aborted>>

\* The request fails or the response is not ok: executeNode throws.
FetchFails(e) ==
    /\ execs[e].pc = "fetch"
    /\ Failures < MaxFail
    /\ Step(OnCatch(Machine, e))
    /\ UNCHANGED <<nodes, edges, aborted>>

\* The user cancels the run (the Cancel button, or the abort on unmount that
\* docs/EngPlan.md describes). executeFlow takes no signal, so nothing of the
\* run reads the flag.
Cancel ==
    /\ ~aborted
    /\ flow \in {"idle", "running"}
    /\ aborted' = TRUE
    /\ log' = Append(log, Entry("cancel", 0, NoNode, ""))
    /\ UNCHANGED <<nodes, edges, flow, result, execs, timers, context, outputs>>

Next ==
    \/ RunFlow /\ UNCHANGED nonEngineVars
    \/ TimerFires /\ UNCHANGED nonEngineVars
    \/ \E e \in 1..Len(execs) : FetchOk(e) /\ UNCHANGED nonEngineVars
    \/ \E e \in 1..Len(execs) : FetchFails(e) /\ UNCHANGED nonEngineVars
    \/ Cancel /\ UNCHANGED nonEngineVars

Spec == Init /\ [][Next]_vars

\* The runs whose termination is examined: graphs that start at an input
\* node, with any other nodes and edges, and no cancellation.
InitLive ==
    /\ EngineInit
    /\ nodes[1].type = "input"
    /\ \A i \in 2..Len(nodes) : nodes[i].type # "input"
    /\ NonEngineIdle

NextLive ==
    \/ RunFlow /\ UNCHANGED nonEngineVars
    \/ TimerFires /\ UNCHANGED nonEngineVars
    \/ \E e \in 1..Len(execs) : FetchOk(e) /\ UNCHANGED nonEngineVars
    \/ \E e \in 1..Len(execs) : FetchFails(e) /\ UNCHANGED nonEngineVars

PendingFetch == \E e \in 1..Len(execs) : execs[e].pc = "fetch"

\* The steps of TimerFires: the oldest timer leaves the head of the queue.
TimerFired ==
    /\ timers # <<>>
    /\ timers' = <<>> \/ Head(timers') # Head(timers)

\* The steps of FetchOk and FetchFails: a pending request is not pending any more.
FetchAnswered ==
    \E e \in 1..Len(execs) : execs[e].pc = "fetch" /\ execs'[e].pc # "fetch"

\* Weak fairness of TimerFires and of the fetch outcomes, written out with
\* their enabling conditions (TimerFires is enabled exactly when a timer is
\* armed, an outcome exactly when a request is pending): an armed 300 ms timer
\* fires, and a handler call that waits for its response returns or throws.
Fairness ==
    /\ []<>(timers = <<>>) \/ []<><<TimerFired>>_vars
    /\ []<>(~PendingFetch) \/ []<><<FetchAnswered>>_vars

SpecLive == InitLive /\ [][NextLive]_vars /\ Fairness

\* --------------------------------------------------- notions of the claims
ExecIds == 1..Len(execs)

ExecsOf(n) == {e \in ExecIds : execs[e].node = n}

\* The states execution e has emitted through onNodeStateChange, in order.
RECURSIVE StatusesFrom(_, _)
StatusesFrom(e, i) ==
    IF i > Len(log) THEN <<>>
    ELSE IF log[i].kind = "state" /\ log[i].exec = e
         THEN <<log[i].status>> \o StatusesFrom(e, i + 1)
         ELSE StatusesFrom(e, i + 1)

StatesOf(e) == StatusesFrom(e, 1)

\* The position in the log of an entry of execution e, or 0.
IndexOf(kind, e, status) ==
    IF \E i \in 1..Len(log) : log[i] = Entry(kind, e, execs[e].node, status)
    THEN CHOOSE i \in 1..Len(log) : log[i] = Entry(kind, e, execs[e].node, status)
    ELSE 0

Successors(n, avoid) ==
    {edges[i].target : i \in {j \in 1..Len(edges) : edges[j].source = n}} \ avoid

\* The nodes reachable from the nodes of `from` along edges, through nodes
\* outside `avoid`.
RECURSIVE ReachFrom(_, _)
ReachFrom(from, avoid) ==
    LET more == UNION {Successors(n, avoid) : n \in from} \ from
    IN  IF more = {} THEN from ELSE ReachFrom(from \cup more, avoid)

StartNode == findStartNode(nodes)

Reachable == IF StartNode = NoNode THEN {} ELSE ReachFrom({StartNode}, {})

\* The nodes some execution of which threw.
Throwers == {execs[e].node : e \in {x \in ExecIds : execs[x].threw}}

Upstream(n) == {edges[i].source : i \in {j \in 1..Len(edges) : edges[j].target = n}}

Roots == {n \in NodeIds : Upstream(n) = {}}

\* -------------------------------------------------------------- claims
\* C1: in one run of an acyclic graph every node reachable from the start node
\* is executed exactly once, however many paths lead to it (stated for runs in
\* which no handler throws).
C1_ExactlyOnce ==
    (flow = "resolved" /\ Failures = 0) =>
        \A n \in Reachable : Cardinality(ExecsOf(n)) = 1

C3_NeverRejects ==
    StartNode # NoNode =>
        /\ flow # "rejected"
        /\ flow = "running" =>
             \E e \in ExecIds : execs[e].pc \in {"delay", "fetch"}
        /\ (flow # "idle" /\ \A e \in ExecIds : execs[e].pc = "settled") =>
             flow = "resolved"

\* The run has resolved although as many handlers failed as the bound allows.
C3_Witness == flow = "resolved" /\ Failures >= 2

\* C4: fan-in on completion. When executeFlow returns, every execution started
\* in the run has returned and has emitted success or error; no node is still
\* running.
C4_FanIn ==
    flow = "resolved" =>
        \A e \in ExecIds :
            /\ execs[e].pc = "settled"
            /\ execs[e].status \in {"success", "error"}
            /\ Len(StatesOf(e)) = 2

\* The run has finished after a fan-out: some execution started two others and
\* one of those started a further one.
C4_Witness ==
    /\ flow = "resolved"
    /\ \E e \in ExecIds :
         /\ Cardinality(Children(execs, e)) >= 2
         /\ \E c \in Children(execs, e) : Children(execs, c) # {}

\* C5: the states an execution emits come in lifecycle order: running first,
\* then exactly one of success and error, and nothing after it; every emitted
\* state belongs to a started execution.
C5_Lifecycle ==
    /\ \A e \in ExecIds :
         /\ StatesOf(e) \in {<<"running">>, <<"running", "success">>,
                             <<"running", "error">>}
         /\ execs[e].pc \in {"delay", "fetch"} <=> StatesOf(e) = <<"running">>
    /\ \A i \in 1..Len(log) : log[i].kind = "state" => log[i].exec \in ExecIds

\* One execution has gone running, success and another running, error.
C5_Witness ==
    \E e, f \in ExecIds :
        /\ StatesOf(e) = <<"running", "success">>
        /\ StatesOf(f) = <<"running", "error">>

C7_FullMapping ==
    (flow = "resolved" /\ \A n \in NodeIds : Cardinality(ExecsOf(n)) <= 1) =>
        \A e \in ExecIds :
            (TypeOf(nodes, execs[e].node) = "output" /\ execs[e].status = "success")
                => result = execs[e].input

\* The position in the log of the success or error of execution e, or 0.
TerminalIndex(e) ==
    IF IndexOf("state", e, "success") # 0 THEN IndexOf("state", e, "success")
    ELSE IndexOf("state", e, "error")

\* C8: join barrier. A node with several incoming edges is never started
\* while an execution of one of its upstream nodes is still running.
C8_JoinBarrier ==
    \A e, u \in ExecIds :
        (/\ execs[u].node \in Upstream(execs[e].node)
         /\ Cardinality(Upstream(execs[e].node)) >= 2
         /\ IndexOf("state", u, "running") < IndexOf("state", e, "running"))
            => /\ TerminalIndex(u) # 0
               /\ TerminalIndex(u) < IndexOf("state", e, "running")

\* C9: every root of the graph is a starting point: when no handler throws,
\* a finished run has executed every root and every node reachable from one.
C9_AllRoots ==
    (flow = "resolved" /\ Failures = 0) =>
        \A n \in ReachFrom(Roots, {}) : ExecsOf(n) # {}

\* The user cancelled before the first node state of the run was emitted.
CancelledBeforeStart ==
    \E i \in 1..Len(log) :
        /\ log[i].kind = "cancel"
        /\ \A j \in 1..(i - 1) : log[j].kind # "state"

\* C10: a run cancelled before any node has started sends no request to the
\* execute endpoint.
C10_NoCallAfterEarlyCancel ==
    CancelledBeforeStart => \A i \in 1..Len(log) : log[i].kind # "fetch"

\* C11: once the run has been cancelled while in progress, no node that had
\* not started is started afterwards.
C11_NoStartAfterCancel ==
    \A i \in 1..Len(log) :
        (log[i].kind = "cancel" /\ \E j \in 1..(i - 1) : log[j].kind = "state") =>
            \A k \in (i + 1)..Len(log) :
                ~(log[k].kind = "state" /\ log[k].status = "running")


\* ---------------------------------------------------------------------------
\* pending-input-registry.ts: promises waiting for user input, keyed by node id
\* ---------------------------------------------------------------------------

MaxWaits == 3

RegIds == {1, 2}

InputData == {"X", "Y"}

Null == "null"

\* A promise the registry has handed out: calls counts the invocations of its
\* resolve function; only the first one settles it.
NewPromise(id) == [id |-> id, state |-> "pending", value |-> "none", calls |-> 0]

\* Calling the resolve function of promise p with value v.
ResolvePromise(ps, p, v) ==
    [ps EXCEPT ![p] = [@ EXCEPT !.calls = @ + 1,
                                !.state = "resolved",
                                !.value = IF ps[p].state = "pending" THEN v ELSE @]]

\* Map.set(key, value) and Map.delete(key).
MapSet(m, k, v) == [x \in (DOMAIN m) \cup {k} |-> IF x = k THEN v ELSE m[x]]

MapDelete(m, k) == [x \in (DOMAIN m) \ {k} |-> m[x]]

isWaiting(id) == id \in DOMAIN pendingInputs

RECURSIVE ResolveAll(_, _, _)
ResolveAll(ps, m, ids) ==
    IF ids = {} THEN ps
    ELSE LET id == CHOOSE x \in ids : TRUE
         IN  ResolveAll(ResolvePromise(ps, m[id], Null), m, ids \ {id})

\* resolveInput that leaves the registration in place.
resolveInputKeep(id, data) ==
    /\ promises' = IF isWaiting(id)
                   THEN ResolvePromise(promises, pendingInputs[id], data)
                   ELSE promises
    /\ pendingInputs' = pendingInputs
    /\ lastCall' = [op |-> "resolveInput", id |-> id, data |-> data,
                    found |-> IF isWaiting(id) THEN pendingInputs[id] ELSE 0]

waitForInput(id) ==
    /\ Len(promises) < MaxWaits
    /\ promises' = Append(promises, NewPromise(id))
    /\ pendingInputs' = MapSet(pendingInputs, id, Len(promises) + 1)
    /\ lastCall' = [op |-> "waitForInput", id |-> id, data |-> "none",
                    found |-> Len(promises) + 1]

resolveInput(id, data) ==
    /\ promises' = IF isWaiting(id)
                   THEN ResolvePromise(promises, pendingInputs[id], data)
                   ELSE promises
    /\ pendingInputs' = IF isWaiting(id) THEN MapDelete(pendingInputs, id)
                        ELSE pendingInputs
    /\ lastCall' = [op |-> "resolveInput", id |-> id, data |-> data,
                    found |-> IF isWaiting(id) THEN pendingInputs[id] ELSE 0]

clear ==
    /\ promises' = ResolveAll(promises, pendingInputs, DOMAIN pendingInputs)
    /\ pendingInputs' = <<>>
    /\ lastCall' = [op |-> "clear", id |-> 0, data |-> Null,
                    found |-> Cardinality(DOMAIN pendingInputs)]

\* The registry on its own: no flow is loaded and nothing runs.
EngineIdle ==
    /\ nodes = <<>>
    /\ edges = <<>>
    /\ flow = "idle"
    /\ result = EmptyString
    /\ execs = <<>>
    /\ timers = <<>>
    /\ context = <<>>
    /\ outputs = <<>>
    /\ log = <<>>
    /\ aborted = FALSE

NonRegIdle == EngineIdle /\ HookIdle /\ EvalIdle /\ QuotaIdle /\ DbIdle /\ CommentIdle /\ AutopilotIdle /\ CollabIdle

InitRegistry == RegInit /\ NonRegIdle

NextRegistry ==
    \/ \E id \in RegIds : waitForInput(id) /\ UNCHANGED nonRegVars
    \/ \E id \in RegIds, data \in InputData :
           resolveInput(id, data) /\ UNCHANGED nonRegVars
    \/ clear /\ UNCHANGED nonRegVars

SpecRegistry == InitRegistry /\ [][NextRegistry]_vars

Unresolved(id) ==
    {p \in 1..Len(promises) : promises[p].id = id /\ promises[p].state = "pending"}

C13_ClearReleasesAll ==
    lastCall.op = "clear" =>
        /\ pendingInputs = <<>>
        /\ \A p \in 1..Len(promises) : promises[p].state = "resolved"

\* C14: at every moment at most one unresolved promise exists per node id.
C14_OneWaiterPerId ==
    \A id \in RegIds : Cardinality(Unresolved(id)) <= 1


\* ---------------------------------------------------------------------------
\* useFlowExecution: runs of the flow on the canvas and their preview log
\* ---------------------------------------------------------------------------

\* The length a capacity-bounded preview log would have to stay within.
PreviewCapacity == 2

\* The stored flows: a prompt feeding two outputs, one of them also fed by the
\* input, and an input feeding three outputs.
HookFlows ==
    {[types |-> <<"input", "prompt", "output", "output">>,
      edges |-> {<<1, 2>>, <<1, 4>>, <<2, 3>>, <<2, 4>>}],
     [types |-> <<"input", "output", "output", "output">>,
      edges |-> {<<1, 2>>, <<1, 3>>, <<1, 4>>}]}

\* setNodes(flow.nodes): the nodes of a stored flow carry no execution state.
CanvasNodes(f) ==
    [i \in NodeIds |-> [type |-> f.types[i], executionStatus |-> "none",
                        executionOutput |-> "none", executionError |-> "none"]]

RECURSIVE IdList(_)
IdList(S) ==
    IF S = {} THEN <<>>
    ELSE LET m == CHOOSE x \in S : \A y \in S : x <= y
         IN  <<m>> \o IdList(S \ {m})

\* The nodes array of the current render, as executeFlow receives it.
NodeList(ui) ==
    LET ids == IdList(DOMAIN ui)
    IN  [i \in 1..Len(ids) |-> [id |-> ids[i], type |-> ui[ids[i]].type]]

\* The state the hook's callbacks transform.
Hook == [ui |-> uiNodes, preview |-> previewEntries, ids |-> addedPreviewIds]

CommitHook(h) ==
    /\ uiNodes' = h.ui
    /\ previewEntries' = h.preview
    /\ addedPreviewIds' = h.ids

\* setNodes(nds => nds.map(...)): the state of the event goes on the node with
\* that id, if the canvas has one. The engine sends an output with success
\* and an error with error only.
SetExecution(ui, nodeId, status) ==
    [n \in DOMAIN ui |->
        IF n = nodeId
        THEN [ui[n] EXCEPT !.executionStatus = status,
                           !.executionOutput = IF status = "success" THEN "set" ELSE "none",
                           !.executionError = IF status = "error" THEN "set" ELSE "none"]
        ELSE ui[n]]

addPreviewEntry(prev, nodeId) ==
    Append(prev, [nodeId |-> nodeId, status |-> "running"])

updatePreviewEntry(prev, nodeId, status) ==
    [i \in 1..Len(prev) |->
        IF prev[i].nodeId = nodeId THEN [prev[i] EXCEPT !.status = status]
        ELSE prev[i]]

\* updateNodeExecutionState that adds a preview entry on every running event.
updateNodeExecutionStateNoDedupe(h, ref, nodeId, status) ==
    LET h1 == [h EXCEPT !.ui = SetExecution(@, nodeId, status)]
    IN  IF ~(nodeId \in DOMAIN ref /\ ref[nodeId].type = "output") THEN h1
        ELSE IF status = "running"
        THEN [h1 EXCEPT !.ids = @ \cup {nodeId},
                        !.preview = addPreviewEntry(@, nodeId)]
        ELSE [h1 EXCEPT !.preview = updatePreviewEntry(@, nodeId, status)]

\* updateNodeExecutionState(nodeId, state); ref is nodesRef.current. The
\* engine's running events carry neither output nor sourceType, so a running
\* event of a node that has its entry changes nothing in the log.
updateNodeExecutionState(h, ref, nodeId, status) ==
    LET h1 == [h EXCEPT !.ui = SetExecution(@, nodeId, status)]
    IN  IF ~(nodeId \in DOMAIN ref /\ ref[nodeId].type = "output") THEN h1
        ELSE IF status = "running"
        THEN IF nodeId \notin h.ids
             THEN [h1 EXCEPT !.ids = @ \cup {nodeId},
                             !.preview = addPreviewEntry(@, nodeId)]
             ELSE h1
        ELSE [h1 EXCEPT !.preview = updatePreviewEntry(@, nodeId, status)]

\* The engine's onNodeStateChange calls of one step, in the order it made them.
RECURSIVE ApplyEvents(_, _, _)
ApplyEvents(h, ref, entries) ==
    IF entries = <<>> THEN h
    ELSE LET ev == Head(entries)
             h1 == IF ev.kind = "state"
                   THEN updateNodeExecutionState(h, ref, ev.node, ev.status)
                   ELSE h
         IN  ApplyEvents(h1, ref, Tail(entries))

resetExecution(h) ==
    [ui |-> [n \in DOMAIN h.ui |->
                [h.ui[n] EXCEPT !.executionStatus = "none",
                                !.executionOutput = "none",
                                !.executionError = "none"]],
     preview |-> <<>>,
     ids |-> {}]

\* The canvas has a prompt node, whose provider needs an API key.
NeedsKey == \E n \in DOMAIN uiNodes : uiNodes[n].type = "prompt"

\* executeFlow just called: nothing has executed.
FreshRun ==
    [flow |-> "running", result |-> EmptyString, execs |-> <<>>, timers |-> <<>>,
     context |-> <<>>, outputs |-> <<>>, log |-> <<>>]

\* runFlow after the isRunning guard. With a missing key it reports the key
\* error and returns. Otherwise it resets, sets isRunning and calls executeFlow
\* with the nodes and edges of the current render; executeFlow runs up to its
\* first await, and if it throws at once the finally block clears isRunning.
StartRun ==
    IF NeedsKey /\ ~hasKey
    THEN /\ keyError' = "missing"
         /\ lastOp' = "runKeyError"
         /\ UNCHANGED <<engineVars, uiNodes, uiEdges, isRunning, previewEntries,
                        addedPreviewIds, hasKey, savedFlow, resetSince, inFlight>>
    ELSE /\ nodes' = NodeList(uiNodes)
         /\ edges' = uiEdges
         /\ LET startNode == findStartNode(NodeList(uiNodes))
            IN  IF startNode = NoNode
                THEN Commit([FreshRun EXCEPT !.flow = "rejected"])
                ELSE Step(StartExecution(FreshRun, startNode, userInput, 0))
         /\ CommitHook(ApplyEvents(resetExecution(Hook), uiNodes, log'))
         /\ keyError' = "none"
         /\ isRunning' = (flow' = "running")
         /\ inFlight' = IF flow' = "running" THEN inFlight + 1 ELSE inFlight
         /\ resetSince' = FALSE
         /\ lastOp' = "run"
         /\ UNCHANGED <<aborted, uiEdges, hasKey, savedFlow>>

\* runFlow without `if (isRunning) return`.
runFlowUnguarded == StartRun

runFlow ==
    IF isRunning
    THEN /\ lastOp' = "runIgnored"
         /\ UNCHANGED <<engineVars, uiNodes, uiEdges, isRunning, previewEntries,
                        addedPreviewIds, keyError, hasKey, savedFlow, resetSince,
                        inFlight>>
    ELSE StartRun

\* What a step of the running executeFlow does to the hook: its events go
\* through updateNodeExecutionState, and when executeFlow returns the finally
\* block of runFlow clears isRunning.
ProjectStep ==
    /\ CommitHook(ApplyEvents(Hook, uiNodes, SubSeq(log', Len(log) + 1, Len(log'))))
    /\ isRunning' = IF flow' = "running" THEN isRunning ELSE FALSE
    /\ inFlight' = IF flow' = "running" THEN inFlight ELSE inFlight - 1
    /\ lastOp' = "event"
    /\ UNCHANGED <<uiEdges, keyError, hasKey, savedFlow, resetSince>>

HookTimerFires == TimerFires /\ ProjectStep

HookFetchOk(e) == FetchOk(e) /\ ProjectStep

HookFetchFails(e) == FetchFails(e) /\ ProjectStep

\* The Reset button, disabled while a run is in progress.
ResetClick ==
    /\ ~isRunning
    /\ CommitHook(resetExecution(Hook))
    /\ resetSince' = TRUE
    /\ lastOp' = "reset"
    /\ UNCHANGED <<engineVars, uiEdges, isRunning, keyError, hasKey, savedFlow,
                   inFlight>>

\* handleSelectTemplate, handleLoadCloudFlow, handleOpenFlow: the stored flow
\* replaces the canvas and resetExecution is called, whether or not a run is
\* in progress.
LoadFlow ==
    /\ uiNodes' = CanvasNodes(savedFlow)
    /\ uiEdges' = EdgeList(savedFlow.edges)
    /\ previewEntries' = <<>>
    /\ addedPreviewIds' = {}
    /\ resetSince' = TRUE
    /\ lastOp' = "load"
    /\ UNCHANGED <<engineVars, isRunning, keyError, hasKey, savedFlow, inFlight>>

\* The user, or a collaborator's update, removes a node and its edges.
DeleteNode(n) ==
    /\ n \in DOMAIN uiNodes
    /\ uiNodes' = [m \in (DOMAIN uiNodes) \ {n} |-> uiNodes[m]]
    /\ uiEdges' = SelectSeq(uiEdges, LAMBDA ed : ed.source # n /\ ed.target # n)
    /\ lastOp' = "delete"
    /\ UNCHANGED <<engineVars, isRunning, previewEntries, addedPreviewIds, keyError,
                   hasKey, savedFlow, resetSince, inFlight>>

NonHookIdle == RegInit /\ EvalIdle /\ QuotaIdle /\ DbIdle /\ CommentIdle /\ AutopilotIdle /\ CollabIdle

InitHook ==
    /\ \E f \in HookFlows :
         /\ savedFlow = f
         /\ uiNodes = CanvasNodes(f)
         /\ uiEdges = EdgeList(f.edges)
         /\ nodes = NodeList(CanvasNodes(f))
         /\ edges = EdgeList(f.edges)
    /\ hasKey \in BOOLEAN
    /\ flow = "idle"
    /\ result = EmptyString
    /\ execs = <<>>
    /\ timers = <<>>
    /\ context = <<>>
    /\ outputs = <<>>
    /\ log = <<>>
    /\ aborted = FALSE
    /\ isRunning = FALSE
    /\ previewEntries = <<>>
    /\ addedPreviewIds = {}
    /\ keyError = "none"
    /\ resetSince = FALSE
    /\ inFlight = 0
    /\ lastOp = "none"
    /\ NonHookIdle

NextHook ==
    \/ runFlow /\ UNCHANGED nonHookVars
    \/ HookTimerFires /\ UNCHANGED nonHookVars
    \/ \E e \in 1..Len(execs) : HookFetchOk(e) /\ UNCHANGED nonHookVars
    \/ \E e \in 1..Len(execs) : HookFetchFails(e) /\ UNCHANGED nonHookVars
    \/ ResetClick /\ UNCHANGED nonHookVars
    \/ LoadFlow /\ UNCHANGED nonHookVars
    \/ \E n \in NodeIds : DeleteNode(n) /\ UNCHANGED nonHookVars

SpecHook == InitHook /\ [][NextHook]_vars


EntriesOf(n) == {i \in 1..Len(previewEntries) : previewEntries[i].nodeId = n}

\* The node ids of the log before the step are the first ids of the log after it.
OrderKept ==
    /\ Len(previewEntries) <= Len(previewEntries')
    /\ \A i \in 1..Len(previewEntries) :
           previewEntries'[i].nodeId = previewEntries[i].nodeId

C16_CapacityBounded == Len(previewEntries) <= PreviewCapacity

\* C17: from a reset until the next run starts, no node on the canvas shows
\* execution state and the preview log and its de-duplication set are empty.
C17_NothingAfterReset ==
    resetSince =>
        /\ \A n \in DOMAIN uiNodes :
               /\ uiNodes[n].executionStatus = "none"
               /\ uiNodes[n].executionOutput = "none"
               /\ uiNodes[n].executionError = "none"
        /\ previewEntries = <<>>
        /\ addedPreviewIds = {}

\* C18: at most one executeFlow call is in flight, isRunning is set exactly
\* while it is; a runFlow call made during a run changes neither the run nor
\* the execution state, and a run starts only when none is in flight.
C18_OneRunInFlight ==
    /\ [](/\ inFlight <= 1
          /\ isRunning <=> (inFlight = 1)
          /\ isRunning <=> (flow = "running"))
    /\ [][(lastOp' = "runIgnored") =>
            UNCHANGED <<engineVars, uiNodes, previewEntries, addedPreviewIds,
                        inFlight>>]_vars
    /\ [][(inFlight' > inFlight) => (~isRunning /\ flow # "running")]_vars

\* runFlow was called in the middle of a run, with executions under way.
C18_Witness ==
    /\ lastOp = "runIgnored"
    /\ isRunning
    /\ Len(execs) >= 2
    /\ \E e \in ExecIds : execs[e].pc # "settled"

\* The run follows the graph executeFlow was called with: it starts at the
\* start node of that node list, and every node that completed and is not an
\* output node started exactly the targets of its edges in that edge list.
SnapshotExecution ==
    /\ Len(execs) >= 1 => execs[1].node = findStartNode(nodes)
    /\ \A e \in ExecIds :
         (execs[e].status = "success" /\ TypeOf(nodes, execs[e].node) # "output") =>
             LET out == getOutgoingEdges(execs[e].node, edges)
                 ch == IdList(Children(execs, e))
             IN  /\ Len(ch) = Len(out)
                 /\ \A i \in 1..Len(out) : execs[ch[i]].node = out[i].target

\* The output nodes the finished run executed.
ExecutedOutputs ==
    {execs[e].node : e \in {x \in ExecIds : TypeOf(nodes, execs[x].node) = "output"}}

\* C19 as stated: changes made to the canvas during a run change neither what
\* the run executes nor which events reach the preview log, so after a run
\* without a reset every output node it executed has its entry.
C19_SnapshotRun ==
    /\ SnapshotExecution
    /\ (flow = "resolved" /\ ~resetSince) =>
           \A n \in ExecutedOutputs : EntriesOf(n) # {}

\* C19 amended: changes made to the canvas during a run do not change what the
\* run executes; the preview log looks the node of an event up in the latest
\* node list, so the output nodes still on the canvas have their entries.
C19_SnapshotExecutionLivePreview ==
    /\ SnapshotExecution
    /\ (flow = "resolved" /\ ~resetSince) =>
           \A n \in ExecutedOutputs \cap DOMAIN uiNodes : EntriesOf(n) # {}

\* An output node was removed from the canvas during the run before it
\* started: the run executed it all the same, and it has no entry.
C19_Witness ==
    /\ flow = "resolved"
    /\ ~resetSince
    /\ \E e \in ExecIds :
         /\ execs[e].status = "success"
         /\ execs[e].node \in ExecutedOutputs
         /\ execs[e].node \notin DOMAIN uiNodes
         /\ EntriesOf(execs[e].node) = {}


\* ---------------------------------------------------------------------------
\* The evaluator of generated code (app/api/execute/route.ts, as described in
\* docs/EngPlan.md): validation in front of new Function()
\* ---------------------------------------------------------------------------

\* The code length limit, in fragments.
MaxCodeLength == 3

\* What a piece of code text can be: harmless text, an unbounded loop, a
\* prototype/constructor escape, a global execution context.
Fragments == {"text", "while(true)", "constructor", "globalThis"}

Forbidden == {"while(true)", "constructor", "globalThis"}

RECURSIVE SeqsUpTo(_)
SeqsUpTo(n) ==
    IF n = 0 THEN {<<>>}
    ELSE LET shorter == SeqsUpTo(n - 1)
         IN  shorter \cup {Append(c, f) : c \in {x \in shorter : Len(x) = n - 1},
                                          f \in Fragments}

\* The requests: every code text up to one fragment over the limit.
Codes == SeqsUpTo(MaxCodeLength + 1)

\* Validation that only tests the forbidden patterns.
validateCodeNoLength(c) == ~\E i \in 1..Len(c) : c[i] \in Forbidden

\* The validation: the length limit and the forbidden patterns.
validateCode(c) ==
    /\ Len(c) <= MaxCodeLength
    /\ ~\E i \in 1..Len(c) : c[i] \in Forbidden

\* A request arrives: the code is validated, and only valid code is handed to
\* new Function().
Evaluate(c) ==
    /\ evalPc = "idle"
    /\ code' = c
    /\ evalPc' = IF validateCode(c) THEN "executing" ELSE "rejected"
    /\ executed' = 0

\* The function built from the code runs, one fragment after the other.
ExecuteCode ==
    /\ evalPc = "executing"
    /\ IF executed < Len(code)
       THEN executed' = executed + 1 /\ evalPc' = evalPc
       ELSE executed' = executed /\ evalPc' = "done"
    /\ code' = code

\* The response has been sent; the next request can come.
Respond ==
    /\ evalPc \in {"done", "rejected"}
    /\ evalPc' = "idle"
    /\ UNCHANGED <<code, executed>>

NonEvalIdle == EngineIdle /\ RegInit /\ HookIdle /\ QuotaIdle /\ DbIdle /\ CommentIdle /\ AutopilotIdle /\ CollabIdle

InitEval == EvalIdle /\ NonEvalIdle

NextEval ==
    \/ \E c \in Codes : Evaluate(c) /\ UNCHANGED nonEvalVars
    \/ ExecuteCode /\ UNCHANGED nonEvalVars
    \/ Respond /\ UNCHANGED nonEvalVars

SpecEval == InitEval /\ [][NextEval]_vars

Unbounded(c) == \E i \in 1..Len(c) : c[i] = "while(true)"

Escapes(c) == \E i \in 1..Len(c) : c[i] = "constructor"

UsesGlobal(c) == \E i \in 1..Len(c) : c[i] = "globalThis"

TooLong(c) == Len(c) > MaxCodeLength

\* C20: code with an unbounded loop, a prototype/constructor escape, a
\* reference to a global execution context, or over the length limit is
\* rejected and none of it is ever executed.
C20_ValidateBeforeExecute ==
    (Unbounded(code) \/ Escapes(code) \/ UsesGlobal(code) \/ TooLong(code)) =>
        /\ executed = 0
        /\ evalPc \in {"rejected", "idle"}

\* Code within the length limit whose last fragment is a loop was rejected.
C20_Witness ==
    /\ evalPc = "rejected"
    /\ executed = 0
    /\ Len(code) = MaxCodeLength
    /\ code[1] = "text"
    /\ Unbounded(code)


\* ---------------------------------------------------------------------------
\* Termination of executeFlow
\* ---------------------------------------------------------------------------

\* C21: a run that has started resolves, when timers fire and handler calls
\* return or throw.
C21_RunResolves == (flow = "running") ~> (flow = "resolved")

\* A run over a fan-in has resolved after a handler threw in one branch while
\* the other branch went on.
C21_Witness ==
    /\ flow = "resolved"
    /\ \E e \in ExecIds : execs[e].threw
    /\ \E n \in NodeIds : Cardinality(ExecsOf(n)) >= 2


\* The nodes that were executed and whose every execution threw.
AllThrew ==
    {n \in NodeIds : ExecsOf(n) # {} /\ \A e \in ExecsOf(n) : execs[e].threw}

\* The nodes that can be reached from the start node only through a node of
\* AllThrew.
CutOff ==
    IF StartNode = NoNode \/ StartNode \in AllThrew THEN Reachable \ AllThrew
    ELSE Reachable \ (ReachFrom({StartNode}, AllThrew) \cup AllThrew)

DailyLimit == 2

MaxCallers == 3

Callers == 1..MaxCallers

NoRow == [count |-> 0, stale |-> FALSE, allow |-> FALSE]

\* SELECT ... without FOR UPDATE: the row is read whoever holds the lock.
CanReadUnlocked(c) == TRUE

\* SELECT ... FOR UPDATE: the row can be read once no other transaction
\* holds its lock.
CanRead(c) == rowLock = 0

\* The row as the SELECT reads it INTO v_flow.
ReadRow == [count |-> dbCount, stale |-> dbStale, allow |-> allowPublic]

\* A call starts its transaction and reaches the SELECT.
QuotaCall(c) ==
    /\ callers[c].pc = "idle"
    /\ callers' = [callers EXCEPT ![c].pc = "select"]
    /\ UNCHANGED <<dbCount, dbStale, allowPublic, rowLock, allowedInWindow>>

\* The SELECT returns: it takes the row lock and reads the committed row.
QuotaSelect(c) ==
    /\ callers[c].pc = "select"
    /\ CanRead(c)
    /\ rowLock' = c
    /\ callers' = [callers EXCEPT ![c].pc = "locked", ![c].v_flow = ReadRow]
    /\ UNCHANGED <<dbCount, dbStale, allowPublic, allowedInWindow>>

\* The rest of the function, up to the commit that releases the lock.
QuotaDecide(c) ==
    /\ callers[c].pc = "locked"
    /\ LET v == callers[c].v_flow
       IN  IF ~v.allow
           THEN /\ callers' = [callers EXCEPT ![c].pc = "done", ![c].allowed = FALSE]
                /\ UNCHANGED <<dbCount, dbStale, allowedInWindow>>
           ELSE IF v.stale
           THEN /\ dbCount' = 1
                /\ dbStale' = FALSE
                /\ allowedInWindow' = 1
                /\ callers' = [callers EXCEPT ![c].pc = "done", ![c].allowed = TRUE]
           ELSE IF v.count >= DailyLimit
           THEN /\ callers' = [callers EXCEPT ![c].pc = "done", ![c].allowed = FALSE]
                /\ UNCHANGED <<dbCount, dbStale, allowedInWindow>>
           ELSE /\ dbCount' = dbCount + 1
                /\ allowedInWindow' = allowedInWindow + 1
                /\ callers' = [callers EXCEPT ![c].pc = "done", ![c].allowed = TRUE]
                /\ UNCHANGED dbStale
    /\ rowLock' = IF rowLock = c THEN 0 ELSE rowLock
    /\ UNCHANGED allowPublic

\* Time passes: the last reset is now more than one day ago.
DayPasses ==
    /\ ~dbStale
    /\ \E c \in Callers : callers[c].pc # "done"
    /\ dbStale' = TRUE
    /\ UNCHANGED <<dbCount, allowPublic, rowLock, callers, allowedInWindow>>

NonQuotaIdle == EngineIdle /\ RegInit /\ HookIdle /\ EvalIdle /\ DbIdle /\ CommentIdle /\ AutopilotIdle /\ CollabIdle

\* A shared flow, with the calls its counter already allowed in this window.
InitQuota ==
    /\ dbCount \in 0..DailyLimit
    /\ allowedInWindow = dbCount
    /\ dbStale \in BOOLEAN
    /\ allowPublic \in BOOLEAN
    /\ rowLock = 0
    /\ callers = [c \in Callers |-> [pc |-> "idle", v_flow |-> NoRow, allowed |-> FALSE]]
    /\ NonQuotaIdle

NextQuota ==
    \/ \E c \in Callers : QuotaCall(c) /\ UNCHANGED nonQuotaVars
    \/ \E c \in Callers : QuotaSelect(c) /\ UNCHANGED nonQuotaVars
    \/ \E c \in Callers : QuotaDecide(c) /\ UNCHANGED nonQuotaVars
    \/ DayPasses /\ UNCHANGED nonQuotaVars

SpecQuota == InitQuota /\ [][NextQuota]_vars

DbNodeIds == {1, 2, 3}

\* The edges a client can hold, by id.
DbEdgeSet ==
    {[id |-> 1, source |-> 1, target |-> 2],
     [id |-> 2, source |-> 2, target |-> 3]}

EdgeIdsOf(es) == {e.id : e \in es}

\* DELETE FROM flow_edges WHERE source_node_id = ANY(ids) OR target_node_id = ANY(ids)
DeleteConnected(es, ids) == {e \in es : e.source \notin ids /\ e.target \notin ids}

\* INSERT ... ON CONFLICT (flow_id, id) DO UPDATE
Upsert(es, rows) == {e \in es : e.id \notin EdgeIdsOf(rows)} \cup rows

\* The body of update_live_flow for a valid token: the deletions, then the
\* upserts. The result is [nodes, edges] as stored when it returns.
UpdateTables(ns, es, p_nodes, p_edges, p_deleted_node_ids, p_deleted_edge_ids) ==
    LET es1 == DeleteConnected(es, p_deleted_node_ids)
        ns1 == ns \ p_deleted_node_ids
        es2 == {e \in es1 : e.id \notin p_deleted_edge_ids}
    IN  [nodes |-> ns1 \cup p_nodes, edges |-> Upsert(es2, p_edges)]

update_live_flow(valid, p_nodes, p_edges, p_deleted_node_ids, p_deleted_edge_ids) ==
    IF ~valid
    THEN /\ lastUpdate' = [success |-> FALSE, deletedNodeIds |-> p_deleted_node_ids]
         /\ UNCHANGED <<dbNodes, dbEdges>>
    ELSE LET t == UpdateTables(dbNodes, dbEdges, p_nodes, p_edges,
                               p_deleted_node_ids, p_deleted_edge_ids)
         IN  /\ dbNodes' = t.nodes
             /\ dbEdges' = t.edges
             /\ lastUpdate' = [success |-> TRUE, deletedNodeIds |-> p_deleted_node_ids]

NonDbIdle == EngineIdle /\ RegInit /\ HookIdle /\ EvalIdle /\ QuotaIdle /\ CommentIdle /\ AutopilotIdle /\ CollabIdle

InitDb ==
    /\ dbNodes = DbNodeIds
    /\ dbEdges = DbEdgeSet
    /\ lastUpdate = [success |-> FALSE, deletedNodeIds |-> {}]
    /\ NonDbIdle

NextDb ==
    \E valid \in BOOLEAN, pn \in SUBSET DbNodeIds, pe \in SUBSET DbEdgeSet,
       dn \in SUBSET DbNodeIds, de \in SUBSET EdgeIdsOf(DbEdgeSet) :
        update_live_flow(valid, pn, pe, dn, de) /\ UNCHANGED nonDbVars

SpecDb == InitDb /\ [][NextDb]_vars

\* C23: after a successful update_live_flow no stored edge starts or ends at a
\* node id the call listed in p_deleted_node_ids.
C23_NoOrphanEdges ==
    lastUpdate.success =>
        \A e \in dbEdges :
            /\ e.source \notin lastUpdate.deletedNodeIds
            /\ e.target \notin lastUpdate.deletedNodeIds


\* ---------------------------------------------------------------------------
\* useCommentAround: wrapping the selected nodes in a comment
\* ---------------------------------------------------------------------------

COMMENT_PADDING == 40
COMMENT_HEADER_HEIGHT == 60
DEFAULT_NODE_WIDTH == 280
DEFAULT_NODE_HEIGHT == 200

CaIds == {1, 2, 3}

\* getId(): an id no node of the canvas has.
NewCommentId == 9

Positions == {[x |-> 100, y |-> 200], [x |-> 300, y |-> 400], [x |-> -20, y |-> 0]}

\* measured is absent (0, 0) or the size the canvas measured.
Measures == {[width |-> 0, height |-> 0], [width |-> 200, height |-> 100]}

NoParent == 0

CaNode(i, t, sel, p, m) ==
    [id |-> i, type |-> t, selected |-> sel, position |-> p, measured |-> m,
     parentId |-> NoParent, style |-> [width |-> 0, height |-> 0]]

MinOf(S) == CHOOSE v \in S : \A w \in S : v <= w

MaxOf(S) == CHOOSE v \in S : \A w \in S : v >= w

\* a || b on numbers
OrDefault(a, b) == IF a = 0 THEN b ELSE a

\* nodes.filter((n) => n.selected && n.type !== "comment")
selectedNodes(nds) == SelectSeq(nds, LAMBDA n : n.selected /\ n.type # "comment")

SeqRange(s) == {s[i] : i \in 1..Len(s)}

BoundsOf(sel) ==
    [minX |-> MinOf({n.position.x : n \in SeqRange(sel)}),
     minY |-> MinOf({n.position.y : n \in SeqRange(sel)}),
     maxX |-> MaxOf({n.position.x + OrDefault(n.measured.width, DEFAULT_NODE_WIDTH)
                        : n \in SeqRange(sel)}),
     maxY |-> MaxOf({n.position.y + OrDefault(n.measured.height, DEFAULT_NODE_HEIGHT)
                        : n \in SeqRange(sel)})]

CommentPosition(b) ==
    [x |-> b.minX - COMMENT_PADDING,
     y |-> b.minY - COMMENT_PADDING - COMMENT_HEADER_HEIGHT]

CommentNode(commentId, b) ==
    [id |-> commentId, type |-> "comment", selected |-> FALSE,
     position |-> CommentPosition(b), measured |-> [width |-> 0, height |-> 0],
     parentId |-> NoParent,
     style |-> [width |-> b.maxX - b.minX + COMMENT_PADDING * 2,
                height |-> b.maxY - b.minY + COMMENT_PADDING * 2 + COMMENT_HEADER_HEIGHT]]

\* Variant: the node is parented but keeps its absolute position.
ReparentAbsolute(node, commentId, commentPosition) ==
    [node EXCEPT !.parentId = commentId]

\* { ...node, parentId: commentId, position: node.position - commentPosition }
Reparent(node, commentId, commentPosition) ==
    [node EXCEPT !.parentId = commentId,
                 !.position = [x |-> node.position.x - commentPosition.x,
                               y |-> node.position.y - commentPosition.y]]

\* The updater handed to setNodes, applied to the list nds.
CommentUpdater(nds, sel, commentId) ==
    LET b == BoundsOf(sel)
        selectedIds == {n.id : n \in SeqRange(sel)}
    IN  <<CommentNode(commentId, b)>> \o
        [i \in 1..Len(nds) |->
            IF nds[i].id \in selectedIds
            THEN Reparent(nds[i], commentId, CommentPosition(b))
            ELSE nds[i]]

handleCommentAround ==
    /\ caPc = "idle"
    /\ caPc' = "done"
    /\ caBefore' = caNodes
    /\ LET sel == selectedNodes(caNodes)
       IN  IF Len(sel) = 0
           THEN UNCHANGED <<caNodes, caCalls>>
           ELSE /\ caNodes' = CommentUpdater(caNodes, sel, NewCommentId)
                /\ caCalls' = [onBeforeChange |-> caCalls.onBeforeChange + 1,
                               setNodes |-> caCalls.setNodes + 1,
                               triggerGeneration |-> caCalls.triggerGeneration + 1]

\* The user clicks a node: its selection flips.
SelectNode(i) ==
    /\ caPc = "idle"
    /\ i \in 1..Len(caNodes)
    /\ caNodes' = [caNodes EXCEPT ![i].selected = ~caNodes[i].selected]
    /\ UNCHANGED <<caBefore, caCalls, caPc>>

NonCommentIdle == EngineIdle /\ RegInit /\ HookIdle /\ EvalIdle /\ QuotaIdle /\ DbIdle /\ AutopilotIdle /\ CollabIdle

InitComment ==
    /\ \E t \in [CaIds -> {"text", "comment"}], sel \in [CaIds -> BOOLEAN],
          p \in [CaIds -> Positions], m \in [CaIds -> Measures] :
           caNodes = [i \in 1..3 |-> CaNode(i, t[i], sel[i], p[i], m[i])]
    /\ caBefore = <<>>
    /\ caCalls = [onBeforeChange |-> 0, setNodes |-> 0, triggerGeneration |-> 0]
    /\ caPc = "idle"
    /\ NonCommentIdle

NextComment ==
    \/ handleCommentAround /\ UNCHANGED nonCommentVars
    \/ \E i \in CaIds : SelectNode(i) /\ UNCHANGED nonCommentVars

SpecComment == InitComment /\ [][NextComment]_vars

\* Is the node at index i of the list one the call wraps?
Wrapped(nds, i) == nds[i].selected /\ nds[i].type # "comment"

\* C24: handleCommentAround parents exactly the selected non-comment nodes to
\* the new comment, with comment position + relative position = the original
\* position; every other node is left as it was; with no selected non-comment
\* node nothing changes and no callback is invoked.
C24_CommentAround ==
    caPc = "done" =>
        IF \A i \in 1..Len(caBefore) : ~Wrapped(caBefore, i)
        THEN /\ caNodes = caBefore
             /\ caCalls = [onBeforeChange |-> 0, setNodes |-> 0, triggerGeneration |-> 0]
        ELSE /\ Len(caNodes) = Len(caBefore) + 1
             /\ caNodes[1].type = "comment"
             /\ caNodes[1].id \notin {caBefore[i].id : i \in 1..Len(caBefore)}
             /\ \A i \in 1..Len(caBefore) :
                    IF Wrapped(caBefore, i)
                    THEN /\ caNodes[i + 1].parentId = caNodes[1].id
                         /\ caNodes[1].position.x + caNodes[i + 1].position.x
                                = caBefore[i].position.x
                         /\ caNodes[1].position.y + caNodes[i + 1].position.y
                                = caBefore[i].position.y
                         /\ [caNodes[i + 1] EXCEPT !.parentId = NoParent,
                                                   !.position = caBefore[i].position]
                                = caBefore[i]
                    ELSE caNodes[i + 1] = caBefore[i]

\* A call wrapped one selected node while a selected comment and an unselected
\* node were on the canvas.
C24_Witness ==
    /\ caPc = "done"
    /\ caCalls.setNodes = 1
    /\ \E i, j, k \in 1..Len(caBefore) :
        /\ Wrapped(caBefore, i)
        /\ caBefore[j].selected /\ caBefore[j].type = "comment"
        /\ ~caBefore[k].selected


\* ---------------------------------------------------------------------------
\* useAutopilotChanges: applying a set of changes and undoing it
\* ---------------------------------------------------------------------------

MaxActions == 2

ApEdge(i, s, t) == [id |-> i, source |-> s, target |-> t]

\* The actions a FlowChanges can hold.
ApActions ==
    {[type |-> "addNode", id |-> 2], [type |-> "addNode", id |-> 3],
     [type |-> "addEdge", edge |-> ApEdge(1, 1, 2)],
     [type |-> "addEdge", edge |-> ApEdge(2, 1, 3)],
     [type |-> "removeEdge", edgeId |-> 1], [type |-> "removeEdge", edgeId |-> 2]}

RECURSIVE ActionSeqs(_)
ActionSeqs(n) ==
    IF n = 0 THEN {<<>>}
    ELSE LET shorter == ActionSeqs(n - 1)
         IN  shorter \cup {Append(q, a) : q \in shorter, a \in ApActions}

\* addEdge of the canvas library: an edge between the same two nodes is not
\* added a second time.
addEdge(e, eds) ==
    IF \E i \in 1..Len(eds) : eds[i].source = e.source /\ eds[i].target = e.target
    THEN eds
    ELSE Append(eds, e)

\* The loop over changes.actions: [nodes, edges, nodeIds, edgeIds] after it.
RECURSIVE ApplyActions(_, _)
ApplyActions(acts, st) ==
    IF acts = <<>> THEN st
    ELSE LET a == Head(acts)
             st1 == CASE a.type = "addNode" ->
                            [st EXCEPT !.nodeIds = Append(@, a.id),
                                       !.nodes = Append(@, a.id)]
                      [] a.type = "addEdge" ->
                            [st EXCEPT !.edgeIds = Append(@, a.edge.id),
                                       !.edges = addEdge(a.edge, @)]
                      [] a.type = "removeEdge" ->
                            [st EXCEPT !.edges = SelectSeq(@, LAMBDA e : e.id # a.edgeId)]
         IN  ApplyActions(Tail(acts), st1)

IdsIn(s) == {s[i] : i \in 1..Len(s)}

applyAutopilotChanges(changes) ==
    /\ apPc = "idle"
    /\ LET r == ApplyActions(changes, [nodes |-> apNodes, edges |-> apEdges,
                                       nodeIds |-> <<>>, edgeIds |-> <<>>])
       IN  /\ apNodes' = r.nodes
           /\ apEdges' = r.edges
           /\ autopilotHighlightedIds' = autopilotHighlightedIds \cup IdsIn(r.nodeIds)
           /\ applied' = [nodeIds |-> r.nodeIds, edgeIds |-> r.edgeIds]
    /\ apBefore' = [nodes |-> apNodes, edges |-> apEdges]
    /\ apPc' = "applied"

undoAutopilotChanges ==
    /\ apPc = "applied"
    /\ apNodes' = SelectSeq(apNodes, LAMBDA n : n \notin IdsIn(applied.nodeIds))
    /\ apEdges' = SelectSeq(apEdges, LAMBDA e : e.id \notin IdsIn(applied.edgeIds))
    /\ autopilotHighlightedIds' = autopilotHighlightedIds \ IdsIn(applied.nodeIds)
    /\ apPc' = "undone"
    /\ UNCHANGED <<apBefore, applied>>

NonAutopilotIdle == EngineIdle /\ RegInit /\ HookIdle /\ EvalIdle /\ QuotaIdle /\ DbIdle /\ CommentIdle /\ CollabIdle

InitAutopilot ==
    /\ apNodes \in {<<1>>, <<1, 2>>, <<1, 2, 3>>}
    /\ apEdges \in {<<>>, <<ApEdge(1, 1, 2)>>, <<ApEdge(1, 1, 2), ApEdge(2, 1, 3)>>}
    /\ \A i \in 1..Len(apEdges) :
           apEdges[i].source \in IdsIn(apNodes) /\ apEdges[i].target \in IdsIn(apNodes)
    /\ autopilotHighlightedIds = {}
    /\ apBefore = [nodes |-> <<>>, edges |-> <<>>]
    /\ applied = [nodeIds |-> <<>>, edgeIds |-> <<>>]
    /\ apPc = "idle"
    /\ NonAutopilotIdle

NextAutopilot ==
    \/ \E changes \in ActionSeqs(MaxActions) :
           applyAutopilotChanges(changes) /\ UNCHANGED nonAutopilotVars
    \/ undoAutopilotChanges /\ UNCHANGED nonAutopilotVars

SpecAutopilot == InitAutopilot /\ [][NextAutopilot]_vars

\* C30: after applyAutopilotChanges and undoAutopilotChanges with the returned
\* AppliedChangesInfo the node list and the edge list are what they were before
\* the apply, and no added node id is highlighted.
C30_UndoRestores ==
    apPc = "undone" =>
        /\ apNodes = apBefore.nodes
        /\ apEdges = apBefore.edges
        /\ autopilotHighlightedIds \cap IdsIn(applied.nodeIds) = {}


\* ---------------------------------------------------------------------------
\* useCollaboration: debounced saves and broadcast sync between two clients
\* ---------------------------------------------------------------------------

Clients == {1, 2}

Other(c) == 3 - c

\* setTimeout(..., 500), counted in ticks of 250 ms.
DebounceTicks == 2

MaxEdits == 2

MaxBroadcasts == 2

\* The flow both clients loaded.
SharedNodes == {1, 2}

SharedEdges == {[id |-> 1, source |-> 1, target |-> 2]}

NoTimer == [armed |-> FALSE]

NeverTriggered == [nodes |-> {}, edges |-> {}, age |-> 0, burst |-> 0, saves |-> 0]

NeverSaved == [issued |-> FALSE]

NeverBroadcast == [origin |-> "none", types |-> {}]

\* Everything but the clients and the stored flow.
nonCollabDbVars ==
    <<engineVars, regVars, hookVars, evalVars, quotaVars, commentVars, autopilotVars>>

\* Variant: a pending timer is left as it is, with its delay and its closure.
triggerSaveKeep(ref, ns, es) ==
    IF ref.armed THEN ref
    ELSE [armed |-> TRUE, nodes |-> ns, edges |-> es, remaining |-> DebounceTicks]

\* clearTimeout(saveTimeoutRef.current); setTimeout(() => performSave(), 500)
\* The performSave of the rendering that called it closes over ns and es.
triggerSave(ref, ns, es) ==
    [armed |-> TRUE, nodes |-> ns, edges |-> es, remaining |-> DebounceTicks]

\* The messages one run of the broadcast effect sends, in order.
BroadcastMessages(c) ==
    LET deletedNodeIds == prevNodesRef[c] \ clNodes[c]
        deletedEdgeIds == EdgeIdsOf(prevEdgesRef[c]) \ EdgeIdsOf(clEdges[c])
        m(t, p) == [type |-> t, payload |-> p, senderId |-> c]
    IN  (IF deletedNodeIds # {} THEN <<m("nodes_deleted", deletedNodeIds)>> ELSE <<>>)
        \o (IF deletedEdgeIds # {} THEN <<m("edges_deleted", deletedEdgeIds)>> ELSE <<>>)
        \o (IF clNodes[c] # {} THEN <<m("nodes_updated", clNodes[c])>> ELSE <<>>)
        \o (IF clEdges[c] # {} THEN <<m("edges_updated", EdgeIdsOf(clEdges[c]))>> ELSE <<>>)

\* Does the broadcast effect return before sending?
BroadcastSkipped(c) == ~isRealtimeConnected \/ isApplyingRemoteRef[c]

\* A state change of the client: the ids present again are no longer deleted.
StillOwed(c, ns, es) ==
    [nodes |-> owed[c].nodes \ ns, edges |-> owed[c].edges \ EdgeIdsOf(es)]

\* The user deletes a node; the canvas removes its edges with it.
LocalDeleteNode(c, n) ==
    /\ edits < MaxEdits
    /\ n \in clNodes[c]
    /\ clNodes' = [clNodes EXCEPT ![c] = @ \ {n}]
    /\ clEdges' = [clEdges EXCEPT ![c] = DeleteConnected(@, {n})]
    /\ owed' = [owed EXCEPT ![c] =
                  [nodes |-> @.nodes \cup {n},
                   edges |-> @.edges \cup
                       EdgeIdsOf(clEdges[c] \ DeleteConnected(clEdges[c], {n}))]]
    /\ renderPending' = [renderPending EXCEPT ![c] = "local"]
    /\ edits' = edits + 1
    /\ UNCHANGED <<prevNodesRef, prevEdgesRef, isApplyingRemoteRef, resetTimers,
                   saveTimeoutRef, isRealtimeConnected, channel, lastTrigger, lastSave,
                   lastBroadcast, broadcasts>>

\* The user deletes an edge.
LocalDeleteEdge(c, e) ==
    /\ edits < MaxEdits
    /\ e \in clEdges[c]
    /\ clEdges' = [clEdges EXCEPT ![c] = @ \ {e}]
    /\ owed' = [owed EXCEPT ![c].edges = @ \cup {e.id}]
    /\ renderPending' = [renderPending EXCEPT ![c] = "local"]
    /\ edits' = edits + 1
    /\ UNCHANGED <<clNodes, prevNodesRef, prevEdgesRef, isApplyingRemoteRef, resetTimers,
                   saveTimeoutRef, isRealtimeConnected, channel, lastTrigger, lastSave,
                   lastBroadcast, broadcasts>>

\* The user moves a node: a new node array with the same ids.
LocalMove(c) ==
    /\ edits < MaxEdits
    /\ clNodes[c] # {}
    /\ renderPending' = [renderPending EXCEPT ![c] = "local"]
    /\ edits' = edits + 1
    /\ UNCHANGED <<clNodes, clEdges, prevNodesRef, prevEdgesRef, isApplyingRemoteRef,
                   resetTimers, saveTimeoutRef, isRealtimeConnected, channel, lastTrigger,
                   lastSave, lastBroadcast, owed, broadcasts>>

\* The effects of one rendering: the auto-save effect calls triggerSave, the
\* broadcast effect sends the local state unless the flag is set.
RunEffects(c) ==
    /\ renderPending[c] # "none"
    /\ renderPending' = [renderPending EXCEPT ![c] = "none"]
    /\ saveTimeoutRef' = [saveTimeoutRef EXCEPT ![c] = triggerSave(@, clNodes[c], clEdges[c])]
    /\ lastTrigger' = [lastTrigger EXCEPT ![c] =
                         [nodes |-> clNodes[c], edges |-> clEdges[c], age |-> 0,
                          burst |-> IF saveTimeoutRef[c].armed THEN @.burst + 1 ELSE 1,
                          saves |-> 0]]
    /\ IF BroadcastSkipped(c) \/ BroadcastMessages(c) = <<>>
       THEN /\ lastBroadcast' = [lastBroadcast EXCEPT ![c] =
                                   [origin |-> renderPending[c], types |-> {}]]
            /\ UNCHANGED <<channel, broadcasts>>
       ELSE /\ broadcasts < MaxBroadcasts
            /\ broadcasts' = broadcasts + 1
            /\ channel' = [channel EXCEPT ![Other(c)] = @ \o BroadcastMessages(c)]
            /\ lastBroadcast' = [lastBroadcast EXCEPT ![c] =
                                   [origin |-> renderPending[c],
                                    types |-> {BroadcastMessages(c)[i].type :
                                                  i \in 1..Len(BroadcastMessages(c))}]]
    /\ UNCHANGED <<clNodes, clEdges, prevNodesRef, prevEdgesRef, isApplyingRemoteRef,
                   resetTimers, isRealtimeConnected, lastSave, owed, edits>>

\* The state of the client after the handler of message m: [nodes, edges,
\* prevNodes, prevEdges].
ApplyRemote(c, m) ==
    CASE m.type = "nodes_updated" ->
            \* applyRemoteNodeUpdates: known ids are merged, unknown ids are added
            [nodes |-> clNodes[c] \cup m.payload, edges |-> clEdges[c],
             prevNodes |-> clNodes[c] \cup m.payload, prevEdges |-> prevEdgesRef[c]]
      [] m.type = "edges_updated" ->
            \* applyRemoteEdgeUpdates
            LET es == Upsert(clEdges[c], {e \in SharedEdges : e.id \in m.payload})
            IN  [nodes |-> clNodes[c], edges |-> es,
                 prevNodes |-> prevNodesRef[c], prevEdges |-> es]
      [] m.type = "nodes_deleted" ->
            \* applyRemoteNodeDeletions
            [nodes |-> clNodes[c] \ m.payload,
             edges |-> DeleteConnected(clEdges[c], m.payload),
             prevNodes |-> clNodes[c] \ m.payload,
             prevEdges |-> DeleteConnected(clEdges[c], m.payload)]
      [] m.type = "edges_deleted" ->
            \* applyRemoteEdgeDeletions
            LET es == {e \in clEdges[c] : e.id \notin m.payload}
            IN  [nodes |-> clNodes[c], edges |-> es,
                 prevNodes |-> prevNodesRef[c], prevEdges |-> es]

\* The channel hands the next message to the client's handler.
Deliver(c) ==
    /\ channel[c] # <<>>
    /\ channel' = [channel EXCEPT ![c] = Tail(@)]
    /\ LET m == Head(channel[c])
       IN  IF m.senderId = c
           THEN UNCHANGED <<clNodes, clEdges, prevNodesRef, prevEdgesRef,
                            isApplyingRemoteRef, resetTimers, renderPending, owed>>
           ELSE LET r == ApplyRemote(c, m)
                IN  /\ clNodes' = [clNodes EXCEPT ![c] = r.nodes]
                    /\ clEdges' = [clEdges EXCEPT ![c] = r.edges]
                    /\ prevNodesRef' = [prevNodesRef EXCEPT ![c] = r.prevNodes]
                    /\ prevEdgesRef' = [prevEdgesRef EXCEPT ![c] = r.prevEdges]
                    /\ isApplyingRemoteRef' = [isApplyingRemoteRef EXCEPT ![c] = TRUE]
                    /\ resetTimers' = [resetTimers EXCEPT ![c] = TRUE]
                    /\ renderPending' = [renderPending EXCEPT ![c] =
                                           IF @ = "local" THEN "local" ELSE "remote"]
                    /\ owed' = [owed EXCEPT ![c] = StillOwed(c, r.nodes, r.edges)]
    /\ UNCHANGED <<saveTimeoutRef, isRealtimeConnected, lastTrigger, lastSave,
                   lastBroadcast, edits, broadcasts>>

\* setTimeout(() => { isApplyingRemoteRef.current = false }, 0) runs.
ResetFlag(c) ==
    /\ resetTimers[c]
    /\ resetTimers' = [resetTimers EXCEPT ![c] = FALSE]
    /\ isApplyingRemoteRef' = [isApplyingRemoteRef EXCEPT ![c] = FALSE]
    /\ UNCHANGED <<clNodes, clEdges, prevNodesRef, prevEdgesRef, renderPending,
                   saveTimeoutRef, isRealtimeConnected, channel, lastTrigger, lastSave,
                   lastBroadcast, owed, edits, broadcasts>>

\* 250 ms pass: the effects and the zero-delay timers of every client have run.
Tick ==
    /\ \E c \in Clients : saveTimeoutRef[c].armed /\ saveTimeoutRef[c].remaining > 0
    /\ \A c \in Clients : renderPending[c] = "none" /\ ~resetTimers[c]
    /\ saveTimeoutRef' = [c \in Clients |->
                            IF saveTimeoutRef[c].armed /\ saveTimeoutRef[c].remaining > 0
                            THEN [saveTimeoutRef[c] EXCEPT !.remaining = @ - 1]
                            ELSE saveTimeoutRef[c]]
    /\ lastTrigger' = [c \in Clients |->
                         IF lastTrigger[c].burst > 0 /\ lastTrigger[c].age < DebounceTicks
                         THEN [lastTrigger[c] EXCEPT !.age = @ + 1]
                         ELSE lastTrigger[c]]
    /\ UNCHANGED <<clNodes, clEdges, prevNodesRef, prevEdgesRef, isApplyingRemoteRef,
                   resetTimers, renderPending, isRealtimeConnected, channel, lastSave,
                   lastBroadcast, owed, edits, broadcasts>>

\* The debounce timer fires: performSave with the nodes and edges of its
\* closure and the refs as they are now; ok is the answer of updateLiveFlow.
performSave(c, ok) ==
    /\ saveTimeoutRef[c].armed
    /\ saveTimeoutRef[c].remaining = 0
    /\ LET t == saveTimeoutRef[c]
           deletedNodeIds == prevNodesRef[c] \ t.nodes
           deletedEdgeIds == EdgeIdsOf(prevEdgesRef[c]) \ EdgeIdsOf(t.edges)
           skip == t.nodes = {} /\ t.edges = {} /\ deletedNodeIds = {} /\ deletedEdgeIds = {}
       IN  /\ lastSave' = [lastSave EXCEPT ![c] =
                             [issued |-> TRUE, nodes |-> t.nodes, edges |-> t.edges,
                              deletedNodeIds |-> deletedNodeIds,
                              deletedEdgeIds |-> deletedEdgeIds,
                              owed |-> owed[c], trigger |-> lastTrigger[c]]]
           /\ IF skip
              THEN UNCHANGED <<prevNodesRef, prevEdgesRef, owed, dbVars>>
              ELSE /\ update_live_flow(ok, t.nodes, t.edges, deletedNodeIds, deletedEdgeIds)
                   /\ IF ok
                      THEN /\ prevNodesRef' = [prevNodesRef EXCEPT ![c] = t.nodes]
                           /\ prevEdgesRef' = [prevEdgesRef EXCEPT ![c] = t.edges]
                           /\ owed' = [owed EXCEPT ![c] =
                                         [nodes |-> @.nodes \ deletedNodeIds,
                                          edges |-> @.edges \ deletedEdgeIds]]
                      ELSE UNCHANGED <<prevNodesRef, prevEdgesRef, owed>>
    /\ saveTimeoutRef' = [saveTimeoutRef EXCEPT ![c] = NoTimer]
    /\ lastTrigger' = [lastTrigger EXCEPT ![c].saves = @ + 1]
    /\ UNCHANGED <<clNodes, clEdges, isApplyingRemoteRef, resetTimers, renderPending,
                   isRealtimeConnected, channel, lastBroadcast, edits, broadcasts>>

NonCollabDbIdle == EngineIdle /\ RegInit /\ HookIdle /\ EvalIdle /\ QuotaIdle /\ CommentIdle /\ AutopilotIdle

\* Both clients have loaded the stored flow.
ClientsLoaded ==
    /\ clNodes = [c \in Clients |-> SharedNodes]
    /\ clEdges = [c \in Clients |-> SharedEdges]
    /\ prevNodesRef = [c \in Clients |-> SharedNodes]
    /\ prevEdgesRef = [c \in Clients |-> SharedEdges]
    /\ isApplyingRemoteRef = [c \in Clients |-> FALSE]
    /\ resetTimers = [c \in Clients |-> FALSE]
    /\ renderPending = [c \in Clients |-> "none"]
    /\ saveTimeoutRef = [c \in Clients |-> NoTimer]
    /\ channel = [c \in Clients |-> <<>>]
    /\ lastTrigger = [c \in Clients |-> NeverTriggered]
    /\ lastSave = [c \in Clients |-> NeverSaved]
    /\ lastBroadcast = [c \in Clients |-> NeverBroadcast]
    /\ owed = [c \in Clients |-> [nodes |-> {}, edges |-> {}]]
    /\ edits = 0
    /\ broadcasts = 0
    /\ dbNodes = SharedNodes
    /\ dbEdges = SharedEdges
    /\ lastUpdate = [success |-> FALSE, deletedNodeIds |-> {}]
    /\ NonCollabDbIdle

InitCollab == ClientsLoaded /\ isRealtimeConnected = TRUE

LocalEdit(c) ==
    \/ \E n \in SharedNodes : LocalDeleteNode(c, n)
    \/ \E e \in SharedEdges : LocalDeleteEdge(c, e)
    \/ LocalMove(c)

NextCollab ==
    \/ \E c \in Clients : LocalEdit(c) /\ UNCHANGED <<dbVars, nonCollabDbVars>>
    \/ \E c \in Clients : RunEffects(c) /\ UNCHANGED <<dbVars, nonCollabDbVars>>
    \/ \E c \in Clients : Deliver(c) /\ UNCHANGED <<dbVars, nonCollabDbVars>>
    \/ \E c \in Clients : ResetFlag(c) /\ UNCHANGED <<dbVars, nonCollabDbVars>>

\* The two clients within one debounce delay of their edits: no save is due.
SpecCollab == InitCollab /\ [][NextCollab]_vars

\* The messages the other collaborator can send: its state is any part of the
\* shared flow.
RemoteMessages ==
    {[type |-> t, payload |-> p, senderId |-> 2] :
        t \in {"nodes_updated", "nodes_deleted"}, p \in (SUBSET SharedNodes) \ {{}}}
    \cup
    {[type |-> t, payload |-> p, senderId |-> 2] :
        t \in {"edges_updated", "edges_deleted"},
        p \in (SUBSET EdgeIdsOf(SharedEdges)) \ {{}}}

\* An edit of the other collaborator reaches the channel of client 1.
RemoteSends(m) ==
    /\ edits < MaxEdits
    /\ edits' = edits + 1
    /\ channel' = [channel EXCEPT ![1] = Append(@, m)]
    /\ UNCHANGED <<clNodes, clEdges, prevNodesRef, prevEdgesRef, isApplyingRemoteRef,
                   resetTimers, renderPending, saveTimeoutRef, isRealtimeConnected,
                   lastTrigger, lastSave, lastBroadcast, owed, broadcasts>>

\* Client 1 edits, receives and saves; the other collaborator is its messages.
NextSave ==
    \/ LocalEdit(1) /\ UNCHANGED <<dbVars, nonCollabDbVars>>
    \/ RunEffects(1) /\ UNCHANGED <<dbVars, nonCollabDbVars>>
    \/ \E m \in RemoteMessages : RemoteSends(m) /\ UNCHANGED <<dbVars, nonCollabDbVars>>
    \/ Deliver(1) /\ UNCHANGED <<dbVars, nonCollabDbVars>>
    \/ ResetFlag(1) /\ UNCHANGED <<dbVars, nonCollabDbVars>>
    \/ Tick /\ UNCHANGED <<dbVars, nonCollabDbVars>>
    \/ \E ok \in BOOLEAN : performSave(1, ok) /\ UNCHANGED nonCollabDbVars

SpecSave == InitCollab /\ [][NextSave]_vars

\* The clients save but the broadcast channel is not subscribed.
InitDebounce == ClientsLoaded /\ isRealtimeConnected = FALSE

NextDebounce ==
    \/ \E c \in Clients : LocalEdit(c) /\ UNCHANGED <<dbVars, nonCollabDbVars>>
    \/ \E c \in Clients : RunEffects(c) /\ UNCHANGED <<dbVars, nonCollabDbVars>>
    \/ Tick /\ UNCHANGED <<dbVars, nonCollabDbVars>>
    \/ \E c \in Clients, ok \in BOOLEAN : performSave(c, ok) /\ UNCHANGED nonCollabDbVars

SpecDebounce == InitDebounce /\ [][NextDebounce]_vars

\* C25: a burst of triggerSave calls ends in one performSave, issued once
\* 500 ms have passed since the last call, with the nodes and edges of that
\* last call; until it is issued the timer stays pending.
C25_DebouncedSave ==
    \A c \in Clients :
        /\ lastTrigger[c].saves <= 1
        /\ (lastTrigger[c].burst > 0 /\ lastTrigger[c].saves = 0) => saveTimeoutRef[c].armed
        /\ lastSave[c].issued =>
              /\ lastSave[c].trigger.age = DebounceTicks
              /\ lastSave[c].nodes = lastSave[c].trigger.nodes
              /\ lastSave[c].edges = lastSave[c].trigger.edges

\* A save was issued for a burst of two triggers with different states.
C25_Witness ==
    \E c \in Clients :
        /\ lastSave[c].issued
        /\ lastSave[c].trigger.burst = 2
        /\ lastSave[c].nodes # SharedNodes
        /\ lastTrigger[c].saves = 1

\* C26: a run of the broadcast effect for a state change that an applyRemote*
\* handler produced sends no message.
C26_NoRebroadcast ==
    \A c \in Clients : lastBroadcast[c].origin = "remote" => lastBroadcast[c].types = {}

\* C28: every save attempt lists the local deletions that no successful save
\* has reported yet, as far as the state it saves has them deleted.
C28_DeletionsReported ==
    \A c \in Clients :
        lastSave[c].issued =>
            /\ lastSave[c].owed.nodes \ lastSave[c].nodes
                   \subseteq lastSave[c].deletedNodeIds
            /\ lastSave[c].owed.edges \ EdgeIdsOf(lastSave[c].edges)
                   \subseteq lastSave[c].deletedEdgeIds

\* Every message is delivered and every effect has run.
Quiescent ==
    \A c \in Clients : channel[c] = <<>> /\ renderPending[c] = "none" /\ ~resetTimers[c]

\* C29: once every broadcast message is delivered the clients hold the same
\* node ids and the same edge ids.
C29_Converged ==
    Quiescent => /\ clNodes[1] = clNodes[2]
                 /\ EdgeIdsOf(clEdges[1]) = EdgeIdsOf(clEdges[2])

====
